---- MODULE Spec2Model ----
(***************************************************************************)
(* Model of netbox/netbox/api/authentication.py: TokenAuthentication       *)
(* (token lookup, last_used bookkeeping, expiry / active-user checks and   *)
(* the LDAP override), TokenPermissions (the write-enabled gate in front   *)
(* of the DjangoObjectPermissions checks) and                              *)
(* IsAuthenticatedOrLoginNotRequired.                                      *)
(*                                                                         *)
(* Instants are whole seconds.  One call of authenticate_credentials is    *)
(* one step: its reads of timezone.now() are taken at the same instant.    *)
(* An optional value (None or a value) is a sequence of length 0 or 1.     *)
(***************************************************************************)
EXTENDS Naturals, Integers, Sequences, FiniteSets, TLC

\* ---------------------------------------------------------------- bounds
MaxTime == 8
ExpiresAt == 3

\* ------------------------------------------------------------- constants
RefreshThreshold == 6

None == << >>
Some(v) == << v >>

Keys == {"abc123", "def456"}
PresentedKeys == Keys \cup {"nokey"}
Users == {"alice", "bob"}
Owner == [k \in Keys |-> IF k = "abc123" THEN "alice" ELSE "bob"]

LDAPBackend == "netbox.authentication.LDAPBackend"
Backends == {"netbox.authentication.RemoteUserBackend", LDAPBackend}

PermsMethods == {"GET", "OPTIONS", "HEAD", "POST", "PUT", "PATCH", "DELETE"}
SAFE_METHODS == {"GET", "HEAD", "OPTIONS"}

VARIABLES tokens, users, now, MAINTENANCE_MODE, LOGIN_REQUIRED,
          REMOTE_AUTH_BACKEND, FIND_GROUP_PERMS, saves, ret

vars == << tokens, users, now, MAINTENANCE_MODE, LOGIN_REQUIRED,
           REMOTE_AUTH_BACKEND, FIND_GROUP_PERMS, saves, ret >>

settings == << LOGIN_REQUIRED, REMOTE_AUTH_BACKEND, FIND_GROUP_PERMS >>

\* ------------------------------------------------------ TokenAuthentication

\* Token.is_expired: the expiration instant is set and in the past.
is_expired(token, t) == token.expires # None /\ token.expires[1] < t

\* Mutant: the threshold comparison is not strict.
NeedsRefresh_ge(token, t) ==
    token.last_used = None \/ (t - token.last_used[1]) >= RefreshThreshold

\* not token.last_used or (timezone.now() - token.last_used).total_seconds() > 6
NeedsRefresh(token, t) ==
    token.last_used = None \/ (t - token.last_used[1]) > RefreshThreshold

\* Mutant: the write is not suppressed in maintenance mode.
WritesLastUsed_nomaint(token, t, maint) == NeedsRefresh(token, t)

\* Mutant: the write is skipped for a token that is expired.
WritesLastUsed_live(token, t, maint) ==
    NeedsRefresh(token, t) /\ ~maint /\ ~is_expired(token, t)

\* Whether the call reaches token.last_used = timezone.now(); token.save()
WritesLastUsed(token, t, maint) == NeedsRefresh(token, t) /\ ~maint

\* Mutant: save() writes the refreshed instant to every token of the store.
SavedStore_all(store, key, t, maint) ==
    [k \in DOMAIN store |->
        IF WritesLastUsed(store[key], t, maint)
        THEN [store[k] EXCEPT !.last_used = Some(t)]
        ELSE store[k]]

\* The token store after the last_used block of a call that found `key`.
SavedStore(store, key, t, maint) ==
    IF WritesLastUsed(store[key], t, maint)
    THEN [store EXCEPT ![key].last_used = Some(t)]
    ELSE store

\* Mutant: the active-user check runs before the expiry check.
CheckChain_activefirst(token, t) ==
    IF ~users[token.user].is_active THEN "User inactive"
    ELSE IF is_expired(token, t) THEN "Token expired"
    ELSE "ok"

\* Mutant: the active-user check is missing.
CheckChain_noactive(token, t) ==
    IF is_expired(token, t) THEN "Token expired" ELSE "ok"

\* The checks after the last_used block, in the code's order.
CheckChain(token, t) ==
    IF is_expired(token, t) THEN "Token expired"
    ELSE IF ~users[token.user].is_active THEN "User inactive"
    ELSE "ok"

\* REMOTE_AUTH_BACKEND is the LDAP backend and FIND_GROUP_PERMS is on.
LdapOverride == REMOTE_AUTH_BACKEND = LDAPBackend /\ FIND_GROUP_PERMS

\* Mutant: the directory's answer is dropped and the local user returned.
ResolvedUser_local(token, found) ==
    [username |-> token.user, source |-> "local"]

\* The identity returned on success; `found` is populate_user's answer.
ResolvedUser(token, found) ==
    IF LdapOverride /\ found
    THEN [username |-> token.user, source |-> "directory"]
    ELSE [username |-> token.user, source |-> "local"]

authenticate_credentials(key, found) ==
    /\ IF key \notin DOMAIN tokens
       THEN /\ ret' = [op |-> "authenticate_credentials", key |-> key,
                       result |-> "Invalid token", user |-> None,
                       token |-> None, populate_user |-> 0,
                       directory |-> None,
                       before |-> None, at |-> now,
                       maintenance |-> MAINTENANCE_MODE]
            /\ UNCHANGED << tokens, saves >>
       ELSE LET token == tokens[key]
                result == CheckChain(token, now)
                ldap == result = "ok" /\ LdapOverride
            IN /\ tokens' = SavedStore(tokens, key, now, MAINTENANCE_MODE)
               /\ saves' = IF tokens'[key].last_used # token.last_used
                           THEN [saves EXCEPT ![key] = Append(@, now)]
                           ELSE saves
               /\ ret' = [op |-> "authenticate_credentials", key |-> key,
                          result |-> result,
                          user |-> IF result = "ok"
                                   THEN Some(ResolvedUser(token, found))
                                   ELSE None,
                          token |-> IF result = "ok" THEN Some(key) ELSE None,
                          populate_user |-> IF ldap THEN 1 ELSE 0,
                          directory |-> IF ldap THEN Some(found) ELSE None,
                          before |-> Some(token), at |-> now,
                          maintenance |-> MAINTENANCE_MODE]
    /\ UNCHANGED << users, now, MAINTENANCE_MODE, settings >>

\* No request is being answered.
Idle == [op |-> "none"]

\* timezone.now() advances; the last response has been delivered.
Tick ==
    /\ now < MaxTime
    /\ now' = now + 1
    /\ ret' = Idle
    /\ UNCHANGED << tokens, users, MAINTENANCE_MODE, settings, saves >>

\* get_config().MAINTENANCE_MODE is dynamic configuration.
SetMaintenanceMode ==
    /\ MAINTENANCE_MODE' = ~MAINTENANCE_MODE
    /\ ret' = Idle
    /\ UNCHANGED << tokens, users, now, settings, saves >>

\* ---------------------------------------------------------- TokenPermissions

Requests ==
    { r \in [method : PermsMethods,
             auth : {None} \cup { Some(k) : k \in Keys },
             is_authenticated : BOOLEAN] :
        r.auth # None => r.is_authenticated }

\* Python truth of a returned object: None and False are falsy.
PyNot(v) == v \in {"None", "False"}

\* Mutant: OPTIONS is not treated as a safe method.
VerifyWritePermission_noopt(method, write_enabled) ==
    IF method \in {"GET", "HEAD"} \/ write_enabled THEN "True" ELSE "None"

\* _verify_write_permission: True, or None when the function falls off its end.
VerifyWritePermission(method, write_enabled) ==
    IF method \in SAFE_METHODS \/ write_enabled THEN "True" ELSE "None"

\* isinstance(request.auth, Token) and not self._verify_write_permission(request)
WriteDenied(request) ==
    /\ request.auth # None
    /\ PyNot(VerifyWritePermission(request.method,
                                   tokens[request.auth[1]].write_enabled))

\* The body shared by has_permission and has_object_permission; `base` is
\* the answer of the superclass's check, asked only when it is reached.
Gate(op, request, base) ==
    /\ ret' = [op |-> op, request |-> request,
               verify |-> IF request.auth # None
                          THEN VerifyWritePermission(request.method,
                                   tokens[request.auth[1]].write_enabled)
                          ELSE "not called",
               result |-> IF WriteDenied(request) THEN FALSE ELSE base,
               super_calls |-> IF WriteDenied(request) THEN 0 ELSE 1,
               super |-> IF WriteDenied(request) THEN None ELSE Some(base)]
    /\ UNCHANGED << tokens, users, now, MAINTENANCE_MODE, settings, saves >>

has_permission(request, base) == Gate("has_permission", request, base)

has_object_permission(request, base) ==
    Gate("has_object_permission", request, base)

\* ----------------------------------------- IsAuthenticatedOrLoginNotRequired

\* Mutant: the LOGIN_REQUIRED test is inverted.
LoginNotRequiredResult_inv(request) ==
    IF LOGIN_REQUIRED THEN TRUE ELSE request.is_authenticated

LoginNotRequiredResult(request) ==
    IF ~LOGIN_REQUIRED THEN TRUE ELSE request.is_authenticated

IsAuthenticatedOrLoginNotRequired_has_permission(request) ==
    /\ ret' = [op |-> "IsAuthenticatedOrLoginNotRequired.has_permission",
               request |-> request,
               result |-> LoginNotRequiredResult(request)]
    /\ UNCHANGED << tokens, users, now, MAINTENANCE_MODE, settings, saves >>

\* ------------------------------------------------------------ specifications

Init ==
    /\ \E e1 \in {None, Some(ExpiresAt)}, e2 \in {None, Some(ExpiresAt)},
          w \in BOOLEAN :
          tokens = [k \in Keys |->
                      [user |-> Owner[k],
                       expires |-> IF k = "abc123" THEN e1 ELSE e2,
                       last_used |-> None,
                       write_enabled |-> IF k = "abc123" THEN w ELSE TRUE]]
    /\ \E a \in BOOLEAN :
          users = [u \in Users |->
                     [is_active |-> IF u = "alice" THEN a ELSE TRUE]]
    /\ now = 0
    /\ MAINTENANCE_MODE = FALSE
    /\ LOGIN_REQUIRED \in BOOLEAN
    /\ REMOTE_AUTH_BACKEND \in Backends
    /\ FIND_GROUP_PERMS \in BOOLEAN
    /\ saves = [k \in Keys |-> << >>]
    /\ ret = Idle

Next ==
    \/ \E key \in PresentedKeys, found \in BOOLEAN :
          authenticate_credentials(key, found)
    \/ Tick
    \/ SetMaintenanceMode

Spec == Init /\ [][Next]_vars

NextPermissions ==
    \/ \E request \in Requests, base \in BOOLEAN :
          has_permission(request, base)
    \/ \E request \in Requests, base \in BOOLEAN :
          has_object_permission(request, base)
    \/ \E request \in Requests :
          IsAuthenticatedOrLoginNotRequired_has_permission(request)

SpecPermissions == Init /\ [][NextPermissions]_vars

\* ------------------------------------------------------------------ claims

\* The last step was a call of authenticate_credentials that found its token.
Resolved == ret.op = "authenticate_credentials" /\ ret.before # None

\* Window of the code's comment "only once a minute", in seconds.
MinuteWindow == 60

UnsafeMethods == {"POST", "PUT", "PATCH", "DELETE"}

\* C1: a token whose expiration instant is set and strictly before the instant
\* of the call is rejected with "Token expired", whatever its write_enabled
\* flag and its owner's active flag, and no (user, token) pair is returned.
C1_ExpiredAlwaysFails ==
    (Resolved /\ ret.before[1].expires # None
              /\ ret.before[1].expires[1] < ret.at)
        => /\ ret.result = "Token expired"
           /\ ret.user = None
           /\ ret.token = None

\* An expired token of an inactive user was presented and rejected.
C1_Witness ==
    /\ Resolved
    /\ ret.before[1].expires # None
    /\ ret.before[1].expires[1] < ret.at
    /\ ~users[ret.before[1].user].is_active
    /\ ret.result = "Token expired"

\* C2 as stated: a call that fails with "Token expired" leaves the token's
\* last_used as it was before the call.
C2_ExpiredLeavesLastUsed ==
    (Resolved /\ ret.result = "Token expired")
        => tokens[ret.key].last_used = ret.before[1].last_used

\* C2 amended: a call that fails with "Token expired" leaves last_used as it
\* was exactly when maintenance mode is on or last_used is set and at most
\* 6 seconds old; otherwise last_used has been refreshed to the instant of the
\* call although the call fails.
C2_ExpiredRefreshesLastUsed ==
    (Resolved /\ ret.result = "Token expired")
        => IF \/ ret.maintenance
              \/ /\ ret.before[1].last_used # None
                 /\ ret.at - ret.before[1].last_used[1] <= 6
           THEN tokens[ret.key].last_used = ret.before[1].last_used
           ELSE /\ tokens[ret.key].last_used = Some(ret.at)
                /\ tokens[ret.key].last_used # ret.before[1].last_used

\* A call failed with "Token expired" and changed last_used.
C2_Witness ==
    /\ Resolved
    /\ ret.result = "Token expired"
    /\ tokens[ret.key].last_used # ret.before[1].last_used

C4_MaintenanceNeverWrites ==
    [][MAINTENANCE_MODE =>
         /\ \A k \in Keys : tokens'[k].last_used = tokens[k].last_used
         /\ (ret'.op = "authenticate_credentials" /\ ret'.before # None)
              => /\ ret'.result =
                       IF ret'.before[1].expires # None
                            /\ ret'.before[1].expires[1] < now
                       THEN "Token expired"
                       ELSE IF ~users[ret'.before[1].user].is_active
                       THEN "User inactive"
                       ELSE "ok"
                 /\ ret'.populate_user =
                       IF ret'.result = "ok"
                            /\ REMOTE_AUTH_BACKEND = LDAPBackend
                            /\ FIND_GROUP_PERMS
                       THEN 1 ELSE 0]_vars

\* A token never used before authenticated in maintenance mode, unwritten.
C4_Witness ==
    /\ Resolved
    /\ ret.maintenance
    /\ ret.before[1].last_used = None
    /\ ret.result = "ok"
    /\ tokens[ret.key].last_used = None

\* C5: two successive writes of one token's last_used are more than 6 seconds
\* apart, and a call writes last_used (to the instant of the call) only if it
\* was unset or more than 6 seconds old.
C5_SixSecondWindow ==
    /\ \A k \in Keys : \A i \in 1..Len(saves[k]) :
          i > 1 => saves[k][i] - saves[k][i - 1] > 6
    /\ (Resolved /\ tokens[ret.key].last_used # ret.before[1].last_used)
        => /\ tokens[ret.key].last_used = Some(ret.at)
           /\ \/ ret.before[1].last_used = None
              \/ ret.at - ret.before[1].last_used[1] > 6

\* One token's last_used has been written twice.
C5_Witness == \E k \in Keys : Len(saves[k]) >= 2

\* C6 as stated: no two writes of one token's last_used are within 60 seconds
\* of each other.
C6_MinuteWindow ==
    \A k \in Keys : \A i \in 1..Len(saves[k]) :
        i > 1 => saves[k][i] - saves[k][i - 1] >= MinuteWindow

\* C7: with a Token credential, an unsafe method and write_enabled false the
\* gate answers false without asking the base check; in every other case the
\* base check is asked once and its answer returned.  _verify_write_permission
\* is truthy for a safe method, and for an unsafe one exactly when
\* write_enabled is true.
C7_WriteGate ==
    ret.op \in {"has_permission", "has_object_permission"}
        => LET r == ret.request
               isToken == r.auth # None
               unsafe == r.method \in UnsafeMethods
           IN /\ IF isToken /\ unsafe /\ ~tokens[r.auth[1]].write_enabled
                 THEN /\ ret.result = FALSE
                      /\ ret.super_calls = 0
                      /\ ret.super = None
                 ELSE /\ ret.super_calls = 1
                      /\ ret.super # None
                      /\ ret.result = ret.super[1]
              /\ isToken =>
                   (ret.verify = "True") =
                       (~unsafe \/ tokens[r.auth[1]].write_enabled)

\* A read-only token sent OPTIONS and the base check denied it.
C7_Witness ==
    /\ ret.op = "has_object_permission"
    /\ ret.request.auth # None
    /\ ~tokens[ret.request.auth[1]].write_enabled
    /\ ret.request.method = "OPTIONS"
    /\ ret.super_calls = 1
    /\ ret.result = FALSE

\* C8: IsAuthenticatedOrLoginNotRequired answers true when LOGIN_REQUIRED is
\* false and the request's authentication status when it is true, and the
\* call changes no token, user or configuration value.
C8_LoginNotRequired ==
    [][ret'.op = "IsAuthenticatedOrLoginNotRequired.has_permission" =>
         /\ ~LOGIN_REQUIRED => ret'.result = TRUE
         /\ LOGIN_REQUIRED => ret'.result = ret'.request.is_authenticated
         /\ UNCHANGED << tokens, users, now, MAINTENANCE_MODE, settings,
                         saves >>]_vars

\* An unauthenticated request was denied under LOGIN_REQUIRED.
C8_Witness ==
    /\ ret.op = "IsAuthenticatedOrLoginNotRequired.has_permission"
    /\ LOGIN_REQUIRED
    /\ ~ret.request.is_authenticated
    /\ ret.result = FALSE

\* C9: populate_user is called at most once, and only for an existing,
\* unexpired token of an active user with the LDAP backend configured and
\* FIND_GROUP_PERMS on; a match is returned as the identity, no match or no
\* override returns the token's own user; the returned token is the one of
\* the presented key.
C9_DirectoryOverride ==
    ret.op = "authenticate_credentials"
        => /\ ret.populate_user \in {0, 1}
           /\ ret.populate_user = 1
                => /\ ret.before # None
                   /\ ~(ret.before[1].expires # None
                          /\ ret.before[1].expires[1] < ret.at)
                   /\ users[ret.before[1].user].is_active
                   /\ REMOTE_AUTH_BACKEND = LDAPBackend
                   /\ FIND_GROUP_PERMS
                   /\ ret.result = "ok"
           /\ (ret.populate_user = 1) = (ret.directory # None)
           /\ ret.result = "ok"
                => /\ ret.token = Some(ret.key)
                   /\ ret.user # None
                   /\ ret.user[1].username = tokens[ret.key].user
                   /\ ret.user[1].source =
                        IF ret.directory = Some(TRUE)
                        THEN "directory" ELSE "local"

\* The directory matched and its identity was returned.
C9_Witness ==
    /\ ret.op = "authenticate_credentials"
    /\ ret.result = "ok"
    /\ ret.directory = Some(TRUE)
    /\ ret.user[1].source = "directory"

\* C10: a call changes nothing but the last_used of the token of the
\* presented key, and a key that matches no token fails with "Invalid token",
\* changes nothing and asks no directory.
C10_Frame ==
    [][ret'.op = "authenticate_credentials" =>
         /\ UNCHANGED << users, now, MAINTENANCE_MODE, settings >>
         /\ DOMAIN tokens' = DOMAIN tokens
         /\ \A k \in Keys :
              /\ tokens'[k].user = tokens[k].user
              /\ tokens'[k].expires = tokens[k].expires
              /\ tokens'[k].write_enabled = tokens[k].write_enabled
              /\ k # ret'.key => tokens'[k] = tokens[k]
         /\ ret'.key \notin Keys
              => /\ ret'.result = "Invalid token"
                 /\ tokens' = tokens
                 /\ ret'.populate_user = 0
                 /\ ret'.user = None]_vars

\* A call wrote last_used of its token while the other token stayed unused.
C10_Witness ==
    /\ Resolved
    /\ tokens[ret.key].last_used # ret.before[1].last_used
    /\ \E k \in Keys : k # ret.key /\ tokens[k].last_used = None

====
